---- MODULE Spec2Model ----
(***************************************************************************)
(* Royalties processor of artblocks-community-tooling.                     *)
(*                                                                         *)
(* Three parts of the program are modelled, each with its own              *)
(* specification over the shared variables:                                *)
(*   SpecFetch   SalesService.getAllSalesBetweenBlockNumbers (subgraph     *)
(*               pagination by block range),                               *)
(*   SpecOS      getOpenSeaSalesEvents (cursor pagination, retry loop),    *)
(*   SpecReport  SalesService.generateProjectReports with                  *)
(*               ProjectReport.addSale / computeCryptoDue.                 *)
(***************************************************************************)
EXTENDS Integers, Sequences, FiniteSets, TLC

VARIABLES
  \* ---- getAllSalesBetweenBlockNumbers
  subgraph,        \* the indexed source: block number -> number of sales in it
  blockRange,      \* the argument <<lo, hi>>
  blockNumberGte,  \* local: inclusive lower bound of the next query
  blockNumberLt,   \* local: exclusive upper bound of the next query
  sales,           \* local: the accumulated result
  fetchState,      \* "fetching" | "returned" | "threw"
  lastPage,        \* the rows the latest query answered (as received)
  lastKept,        \* newSales as pushed onto sales by the latest iteration
  \* ---- getOpenSeaSalesEvents
  variant,         \* 1: first copy of opensea_api.ts, 2: second copy
  collectionSlug,  \* argument, a string as the sequence of its characters
  minBlockNumber,  \* argument
  openSeaSales,    \* local: the accumulated result
  osState,         \* "called" | "fetching" | "reading" | "returned" | "threw"
  _next,           \* local: the cursor of the next request (NoCursor for "")
  retries,         \* local of the retry loop
  attempts,        \* number of fetch() calls made for the current page
  response,        \* local: "undefined" | "ok" | "notok"
  pagesFetched,    \* number of pages whose data was read
  lastCursor,      \* the cursor the latest successful request carried
  lastHasNext,     \* whether the latest page read came with a next cursor
  eventsRead,      \* the events of all pages read, in the order of the source
  lastEvents,      \* data.asset_events of the latest page read
  lastPushed,      \* the events of that page pushed onto openSeaSales
  osFailure,       \* "none" | "maxRetries" | "typeError"
  \* ---- generateProjectReports
  reportSales,     \* argument: the filtered sale list
  salePos,         \* index of the sale the outer loop is at
  lookupPos,       \* index of the lookup entry the inner loop is at
  projectReports,  \* the Map, as the sequence of its reports in insertion order
  reportState,     \* "adding" | "computing" | "returned" | "threw" (in
                   \* computeCryptoDue) | "threwInAddSale"
  looksRareFee,    \* the argument computeCryptoDue receives (number | undefined)
  duePos,          \* index of the report the finalising loop is at
  \* ---- processSales (filter stages)
  salesFilter,     \* argument: collectionFilter, contractFilterType, contractsFilter
  fetchedSales,    \* the sale objects getAllSalesBetweenBlockNumbers returned
  originalSales,   \* those sales as they were returned (history)
  processedSales,  \* local `sales` as the filter stages rebuild it
  procPos,         \* index of the sale the callback of the first filter is at
  procState        \* "filtering" | "eligibility" | "returned" | "reporting"

fetchVars == <<subgraph, blockRange, blockNumberGte, blockNumberLt, sales,
               fetchState, lastPage, lastKept>>

osVars == <<variant, collectionSlug, minBlockNumber, openSeaSales, osState, _next, retries, attempts,
            response, pagesFetched, lastCursor, lastHasNext, eventsRead, lastEvents,
            lastPushed, osFailure>>

reportVars == <<reportSales, salePos, lookupPos, projectReports, reportState,
                looksRareFee, duePos>>

processVars == <<salesFilter, fetchedSales, originalSales, processedSales, procPos,
                 procState>>

vars == <<fetchVars, osVars, reportVars, processVars>>

(***************************************************************************)
(* Bounds of the model.                                                    *)
(***************************************************************************)
\* Page size of the subgraph queries.  The source uses 1000 (const first);
\* the model scales it down.  The source holds blocks 1..MaxBlockNumber with
\* 0..MaxPerBlock sales each, which covers blocks holding less than a page
\* and blocks filling one.
first == 3

MaxBlockNumber == 3

MaxPerBlock == 3

\* The marketplace source: at most MaxOSPages pages along the cursor chain,
\* each of at most MaxEvents events; minBlockNumber is drawn from
\* 1..MaxOSBlock.
MaxOSPages == 2

MaxEvents == 3

MaxOSBlock == 1

\* A bundle event holds at most MaxAssets assets.
MaxAssets == 2

\* The number of sales handed to generateProjectReports.
MaxSales == 2

\* The number of sales the filter stages of processSales are given.
MaxFetchedSales == 2

\* BLOCK_WHERE_PRIVATE_SALES_HAVE_ROYALTIES of ./constant (not part of src/):
\* the model places the threshold at a small block; the sales are at the
\* threshold or one block below it.
BLOCK_WHERE_PRIVATE_SALES_HAVE_ROYALTIES == 2

(***************************************************************************)
(* Generic helpers.                                                        *)
(***************************************************************************)
Front(s) == SubSeq(s, 1, Len(s) - 1)

Last(s) == s[Len(s)]

Take(s, n) == SubSeq(s, 1, IF Len(s) < n THEN Len(s) ELSE n)

Range(s) == {s[i] : i \in 1..Len(s)}

IsDescending(s) == \A i \in 1..(Len(s) - 1) : s[i].blockNumber >= s[i + 1].blockNumber

SetMin(S) == CHOOSE x \in S : \A y \in S : x <= y

(***************************************************************************)
(* The subgraph sales source (SalesRepository, not part of src/): answers  *)
(* a query with the first `first` sales of [gte, lt) in descending block   *)
(* order.  The order of sales inside one block is not specified; `rev`     *)
(* picks one of two orders per query.                                      *)
(***************************************************************************)
Sale(b, k) == [id |-> <<b, k>>, blockNumber |-> b]

BlockSales(b, rev) ==
  [i \in 1..subgraph[b] |-> Sale(b, IF rev THEN subgraph[b] + 1 - i ELSE i)]

RECURSIVE SalesDesc(_, _, _)
SalesDesc(gte, lt, rev) ==
  IF lt <= gte THEN <<>>
  ELSE BlockSales(lt - 1, rev) \o SalesDesc(gte, lt - 1, rev)

getSalesBetweenBlockNumbers(pageFirst, skip, gte, lt, rev) ==
  Take(SubSeq(SalesDesc(gte, lt, rev), skip + 1, Len(SalesDesc(gte, lt, rev))),
       pageFirst)

(***************************************************************************)
(* SalesService.getAllSalesBetweenBlockNumbers                             *)
(***************************************************************************)
\* The inner while loop after the first pop has set blockNumberFinalSale:
\* pop the last row; when its block is greater than blockNumberFinalSale push
\* it back and make its block the new blockNumberLt.  pop() on the emptied
\* array yields undefined and reading its blockNumber throws.
RECURSIVE ScanForSplit(_, _)
ScanForSplit(newSales, blockNumberFinalSale) ==
  IF Len(newSales) = 0
  THEN [threw |-> TRUE, newSales |-> <<>>, blockNumberLt |-> -1]
  ELSE IF blockNumberFinalSale < Last(newSales).blockNumber
       THEN [threw |-> FALSE, newSales |-> newSales,
             blockNumberLt |-> Last(newSales).blockNumber]
       ELSE ScanForSplit(Front(newSales), blockNumberFinalSale)

\* A naive scroll: keep the whole page and continue below its last block.
SplitPageNaive(newSales) ==
  [threw |-> FALSE, newSales |-> newSales,
   blockNumberLt |-> Last(newSales).blockNumber]

\* A scan that gives up on an empty array instead of throwing, keeping the
\* range as it is.
SplitPageNoThrow(newSales) ==
  IF ScanForSplit(Front(newSales), Last(newSales).blockNumber).threw
  THEN [threw |-> FALSE, newSales |-> <<>>, blockNumberLt |-> blockNumberLt]
  ELSE ScanForSplit(Front(newSales), Last(newSales).blockNumber)

\* A scan that compares with <= : it stops inside the block of the last row.
SplitPageInclusive(newSales) ==
  ScanForSplit(Front(newSales), Last(newSales).blockNumber - 1)

\* A scan that finds the split point but leaves blockNumberLt as it is.
SplitPageStuck(newSales) ==
  [threw |-> ScanForSplit(Front(newSales), Last(newSales).blockNumber).threw,
   newSales |-> ScanForSplit(Front(newSales), Last(newSales).blockNumber).newSales,
   blockNumberLt |-> blockNumberLt]

\* The handling of a full page: the first pop saves the block number of the
\* last row, the scan finds the split point.
SplitPage(newSales) ==
  ScanForSplit(Front(newSales), Last(newSales).blockNumber)

\* One iteration of the while (true) loop.
getAllSalesBetweenBlockNumbers ==
  /\ fetchState = "fetching"
  /\ \E rev \in BOOLEAN :
       LET newSales == getSalesBetweenBlockNumbers(first, 0, blockNumberGte,
                                                   blockNumberLt, rev)
       IN /\ lastPage' = newSales
          /\ IF Len(newSales) < first
             THEN /\ sales' = sales \o newSales
                  /\ lastKept' = newSales
                  /\ fetchState' = "returned"
                  /\ UNCHANGED blockNumberLt
             ELSE LET split == SplitPage(newSales)
                  IN IF split.threw
                     THEN /\ fetchState' = "threw"
                          /\ lastKept' = <<>>
                          /\ UNCHANGED <<sales, blockNumberLt>>
                     ELSE /\ sales' = sales \o split.newSales
                          /\ lastKept' = split.newSales
                          /\ blockNumberLt' = split.blockNumberLt
                          /\ fetchState' = "fetching"
  /\ UNCHANGED <<subgraph, blockRange, blockNumberGte, osVars, reportVars, processVars>>


(***************************************************************************)
(* getOpenSeaSalesEvents (opensea_api.ts, both copies)                     *)
(***************************************************************************)
MAX_RETRIES == 15

\* The cursor strings: "" and data.next of each page.
NoCursor == <<>>

CursorAfter(page) == <<"cursor", page>>

\* _event.asset_bundle and _event.asset: <<>> for null, <<x>> for the object x
NoBundle == <<>>

Bundle(assets) == <<[assets |-> assets]>>

AssetsOf(event) == event.asset_bundle[1].assets

Asset(tokenId, slug) == [token_id |-> tokenId, collection |-> [slug |-> slug]]

\* The events a page of the source may hold, identified by page and
\* position.  The source is meant to deliver them newest first but the pages
\* drawn here are in any order.
Event(page, i, b) ==
  [id |-> <<page, i>>, blockNumber |-> b, asset_bundle |-> NoBundle,
   asset |-> <<Asset(1, collectionSlug)>>]

BundleEvent(page, i, b, assets) ==
  [id |-> <<page, i>>, blockNumber |-> b, asset_bundle |-> Bundle(assets),
   asset |-> <<>>]

\* Pages of single-asset events, each either at minBlockNumber or just below
\* it (the code only compares the block with minBlockNumber).
EventPages(page) ==
  UNION {{[i \in 1..n |-> Event(page, i, bs[i])]
            : bs \in [1..n -> {minBlockNumber - 1, minBlockNumber}]}
           : n \in 0..MaxEvents}

\* The collection slugs an asset may report for a requested slug: the slug,
\* a longer slug that contains it, and another slug.
SlugChoices(slug) == {slug, slug \o <<"2">>, <<"z">>}

\* The assets of a bundle: token ids 1..n, any slugs
BundleChoices ==
  UNION {{[k \in 1..n |-> Asset(k, sl[k])] : sl \in [1..n -> SlugChoices(collectionSlug)]}
           : n \in 1..MaxAssets}

\* Event i of a page, at minBlockNumber: a single-asset event or a bundle
EventsAt(page, i) ==
  {Event(page, i, minBlockNumber)}
    \cup {BundleEvent(page, i, minBlockNumber, assets) : assets \in BundleChoices}

\* Pages of one event or of two
BundleEventPages(page) ==
  {<<e>> : e \in EventsAt(page, 1)}
    \cup {<<e1, e2>> : e1 \in EventsAt(page, 1), e2 \in EventsAt(page, 2)}

\* String.includes
StringIncludes(str, part) ==
  \E i \in 1..(Len(str) - Len(part) + 1) : SubSeq(str, i, i + Len(part) - 1) = part

\* A summary with one item per asset of the requested collection.
SummaryTokensSoldOfMatching(event) ==
  IF event.asset_bundle = NoBundle THEN <<"dummy">>
  ELSE [k \in 1..Cardinality({j \in 1..Len(AssetsOf(event)) :
                               AssetsOf(event)[j].collection.slug = collectionSlug})
          |-> "dummy"]

\* _summaryTokensSold as the list of its '::'-separated items: "dummy", and
\* one "::dummy" more for each asset of a bundle after the first.
SummaryTokensSold(event) ==
  IF event.asset_bundle = NoBundle THEN <<"dummy">>
  ELSE <<"dummy">> \o [k \in 1..(Len(AssetsOf(event)) - 1) |-> "dummy"]

\* _openSeaLookupTables.push({id, token})
OpenSeaLookupTable(asset) == [token |-> [tokenId |-> asset.token_id]]

\* The bundle branch of the first copy: a lookup table for each asset whose
\* slug is the requested one, a warning for the others.
RECURSIVE BundleLookupTablesFirstCopy(_, _)
BundleLookupTablesFirstCopy(assets, slug) ==
  IF Len(assets) = 0 THEN [threw |-> FALSE, tables |-> <<>>]
  ELSE [threw |-> FALSE,
        tables |->
          (IF Head(assets).collection.slug = slug
           THEN <<OpenSeaLookupTable(Head(assets))>> ELSE <<>>)
          \o BundleLookupTablesFirstCopy(Tail(assets), slug).tables]

\* assets.every(_asset => _asset.collection.slug === assets[0].collection.slug)
UniformBundle(assets) ==
  \A k \in 1..Len(assets) : assets[k].collection.slug = assets[1].collection.slug

\* The slug of an asset after the coalescion of the second copy
CoalescedSlug(openSeaCollectionSlug, slug) ==
  IF StringIncludes(openSeaCollectionSlug, slug) /\ openSeaCollectionSlug # slug
  THEN slug ELSE openSeaCollectionSlug

\* The for loop of the second copy over the assets of a uniform bundle: a
\* lookup table for each asset whose coalesced slug is the requested one, a
\* throw at the first other asset.
RECURSIVE UniformBundleLookupTables(_, _)
UniformBundleLookupTables(assets, slug) ==
  IF Len(assets) = 0 THEN [threw |-> FALSE, tables |-> <<>>]
  ELSE IF CoalescedSlug(Head(assets).collection.slug, slug) = slug
       THEN [threw |-> UniformBundleLookupTables(Tail(assets), slug).threw,
             tables |-> <<OpenSeaLookupTable(Head(assets))>>
                          \o UniformBundleLookupTables(Tail(assets), slug).tables]
       ELSE [threw |-> TRUE, tables |-> <<>>]

\* The bundle branch of the second copy: the loop for a uniform bundle, no
\* lookup table and a warning for the others.
BundleLookupTablesSecondCopy(assets, slug) ==
  IF UniformBundle(assets) THEN UniformBundleLookupTables(assets, slug)
  ELSE [threw |-> FALSE, tables |-> <<>>]

\* _openSeaLookupTables of one event
LookupTablesOf(v, slug, event) ==
  IF event.asset_bundle = NoBundle
  THEN [threw |-> FALSE, tables |-> <<OpenSeaLookupTable(event.asset[1])>>]
  ELSE IF v = 1 THEN BundleLookupTablesFirstCopy(AssetsOf(event), slug)
       ELSE BundleLookupTablesSecondCopy(AssetsOf(event), slug)

\* The callback of openSeaEvents.map: the sale of one event
SaleOfEvent(v, slug, event) ==
  [id |-> event.id,
   saleType |-> IF event.asset_bundle = NoBundle THEN "Single" ELSE "Bundle",
   blockNumber |-> event.blockNumber,
   summaryTokensSold |-> SummaryTokensSold(event),
   openSeaSaleLookupTables |-> LookupTablesOf(v, slug, event).tables]

\* openSeaEventModelToSubgraphModel: one sale per event, in order; a throw
\* in the callback for one event leaves the function without a result.
openSeaEventModelToSubgraphModel(v, slug, openSeaEvents) ==
  [threw |-> \E i \in 1..Len(openSeaEvents) :
               LookupTablesOf(v, slug, openSeaEvents[i]).threw,
   sales |-> [i \in 1..Len(openSeaEvents) |-> SaleOfEvent(v, slug, openSeaEvents[i])]]

\* The for loop of the first copy: push until the first sale below
\* minBlockNumber, then break.
RECURSIVE PushUntilBelowMin(_, _)
PushUntilBelowMin(newOpenSeaSales, minBlock) ==
  IF Len(newOpenSeaSales) = 0 THEN <<>>
  ELSE IF Head(newOpenSeaSales).blockNumber >= minBlock
       THEN <<Head(newOpenSeaSales)>> \o PushUntilBelowMin(Tail(newOpenSeaSales), minBlock)
       ELSE <<>>

\* The for loop of the second copy: push every sale at or above
\* minBlockNumber, without break.
RECURSIVE PushAllAtLeastMin(_, _)
PushAllAtLeastMin(newOpenSeaSales, minBlock) ==
  IF Len(newOpenSeaSales) = 0 THEN <<>>
  ELSE IF Head(newOpenSeaSales).blockNumber >= minBlock
       THEN <<Head(newOpenSeaSales)>> \o PushAllAtLeastMin(Tail(newOpenSeaSales), minBlock)
       ELSE PushAllAtLeastMin(Tail(newOpenSeaSales), minBlock)

\* A loop that pushes every sale of the page.
PushedSalesUnfiltered(v, newOpenSeaSales, minBlock) == newOpenSeaSales

PushedSales(v, newOpenSeaSales, minBlock) ==
  IF v = 1 THEN PushUntilBelowMin(newOpenSeaSales, minBlock)
  ELSE PushAllAtLeastMin(newOpenSeaSales, minBlock)

\* _reachedMinBlockNumber after the for loop (the same in both copies).
ReachedMinBlockNumber(newOpenSeaSales, minBlock) ==
  \E i \in 1..Len(newOpenSeaSales) : newOpenSeaSales[i].blockNumber < minBlock

\* A retry guard that is off by one.
CanRetryInclusive(r) == r <= MAX_RETRIES

\* if (retries < MAX_RETRIES)
CanRetry(r) == r < MAX_RETRIES

\* The collection the importer skips
ExcludedCollection ==
  <<"c", "r", "y", "p", "t", "o", "c", "i", "t", "i", "z", "e", "n", "s",
    "o", "f", "f", "i", "c", "i", "a", "l">>

\* A test of the skipped collection against a slug no request is made with.
IsExcludedCollectionMisspelt(slug) == slug = ExcludedCollection \o <<"s">>

\* collectionSlug === "cryptocitizensofficial"
IsExcludedCollection(slug) == slug = ExcludedCollection

\* The start of the function: the skipped collection returns the empty list
\* at once, any other goes on to the first request.
skipExcludedCollection ==
  /\ osState = "called"
  /\ osState' = IF IsExcludedCollection(collectionSlug) THEN "returned" ELSE "fetching"
  /\ UNCHANGED <<variant, collectionSlug, minBlockNumber, openSeaSales, _next, retries,
                 attempts, response, pagesFetched, lastCursor, lastHasNext,
                 eventsRead, lastEvents, lastPushed, osFailure, fetchVars,
                 reportVars, processVars>>

\* The part of one iteration of while (!success) that follows the fetch:
\* `resp` is the value of `response` after the try/catch.
AfterFetch(resp) ==
  /\ response' = resp
  /\ attempts' = attempts + 1
  /\ IF resp = "undefined"
     THEN \* response.ok on undefined: a TypeError leaves the function
          /\ osState' = "threw"
          /\ osFailure' = "typeError"
          /\ UNCHANGED retries
     ELSE IF resp = "notok"
          THEN IF CanRetry(retries)
               THEN /\ retries' = retries + 1
                    /\ UNCHANGED <<osState, osFailure>>
               ELSE /\ osState' = "threw"
                    /\ osFailure' = "maxRetries"
                    /\ UNCHANGED retries
          ELSE /\ osState' = "reading"
               /\ UNCHANGED <<retries, osFailure>>
  /\ UNCHANGED <<variant, collectionSlug, minBlockNumber, openSeaSales, _next, pagesFetched,
                 lastCursor, lastHasNext, eventsRead, lastEvents, lastPushed,
                 fetchVars, reportVars, processVars>>

\* fetch() resolves with a successful response.
fetchOk ==
  /\ osState = "fetching"
  /\ AfterFetch("ok")

\* fetch() resolves with a non-success response.
fetchNotOk ==
  /\ osState = "fetching"
  /\ AfterFetch("notok")

\* fetch() rejects: the catch swallows the error and `response` keeps the
\* value it had.
fetchRejects ==
  /\ osState = "fetching"
  /\ AfterFetch(response)

\* After the retry loop, for the page `events` with or without a next
\* cursor: convert the events, push the sales, stop or go on with the next
\* cursor.  A throw of the conversion leaves the function.
ReadPage(events, hasNext) ==
  LET converted == openSeaEventModelToSubgraphModel(variant, collectionSlug, events)
      newOpenSeaSales == converted.sales
      pushed == PushedSales(variant, newOpenSeaSales, minBlockNumber)
  IN /\ lastEvents' = events
     /\ eventsRead' = eventsRead \o events
     /\ lastHasNext' = hasNext
     /\ lastCursor' = _next
     /\ pagesFetched' = pagesFetched + 1
     /\ retries' = 0
     /\ attempts' = 0
     /\ response' = "undefined"
     /\ IF converted.threw
        THEN /\ osState' = "threw"
             /\ osFailure' = "unexpectedResponse"
             /\ lastPushed' = <<>>
             /\ UNCHANGED <<openSeaSales, _next>>
        ELSE /\ lastPushed' = pushed
             /\ openSeaSales' = openSeaSales \o pushed
             /\ UNCHANGED osFailure
             /\ IF ~hasNext \/ ReachedMinBlockNumber(newOpenSeaSales, minBlockNumber)
                THEN /\ osState' = "returned"
                     /\ UNCHANGED _next
                ELSE /\ osState' = "fetching"
                     /\ _next' = CursorAfter(pagesFetched + 1)
     /\ UNCHANGED <<variant, collectionSlug, minBlockNumber, fetchVars, reportVars,
                    processVars>>

\* A page of single-asset events is read.
readPage ==
  /\ osState = "reading"
  /\ \E events \in EventPages(pagesFetched + 1),
        hasNext \in IF pagesFetched + 1 < MaxOSPages THEN BOOLEAN ELSE {FALSE} :
       ReadPage(events, hasNext)

\* A page with bundle events is read; it is the last page of the source.
readBundlePage ==
  /\ osState = "reading"
  /\ \E events \in BundleEventPages(pagesFetched + 1) : ReadPage(events, FALSE)

getOpenSeaSalesEvents ==
  \/ skipExcludedCollection
  \/ fetchOk
  \/ fetchNotOk
  \/ fetchRejects
  \/ readPage

\* The function on a source of bundle events that answers every request.
getOpenSeaSalesEventsOfBundles ==
  \/ skipExcludedCollection
  \/ fetchOk
  \/ readBundlePage


(***************************************************************************)
(* Sales, tokens and projects (graphQL_entities_def.ts).                   *)
(***************************************************************************)
NoValue == "null"

\* number | null : <<>> for null, <<n>> for the number n
NoNumber == <<>>

\* number | undefined : <<>> for a parameter no argument was given for
Undefined == <<>>

Number(n) == <<n>>

NumberOf(v) == v[1]

\* token.project of the two projects of the model: A has an additional
\* payee with 20 percent, B has none.
ProjectA ==
  [id |-> <<1>>, name |-> "A", artistAddress |-> "0xa1",
   curationStatus |-> "curated", additionalPayee |-> "0xp1",
   additionalPayeePercentage |-> Number(20)]

ProjectB ==
  [id |-> <<2, 3>>, name |-> "B", artistAddress |-> "0xb1",
   curationStatus |-> "factory", additionalPayee |-> NoValue,
   additionalPayeePercentage |-> NoNumber]

\* Projects that occur in one sale each: C with 100 percent for the
\* additional payee, D with 0 percent, and a second project named "A" with
\* another id, artist and payee.
ProjectC ==
  [id |-> <<4>>, name |-> "C", artistAddress |-> "0xc1",
   curationStatus |-> "playground", additionalPayee |-> "0xp3",
   additionalPayeePercentage |-> Number(100)]

ProjectD ==
  [id |-> <<5>>, name |-> "D", artistAddress |-> "0xd1",
   curationStatus |-> "playground", additionalPayee |-> "0xp4",
   additionalPayeePercentage |-> Number(0)]

ProjectA2 ==
  [id |-> <<1, 0>>, name |-> "A", artistAddress |-> "0xa2",
   curationStatus |-> "factory", additionalPayee |-> NoValue,
   additionalPayeePercentage |-> NoNumber]

SaleLookupTable(project) == [token |-> [project |-> project]]

LookupChoices ==
  { <<SaleLookupTable(ProjectA)>>,
    <<SaleLookupTable(ProjectA), SaleLookupTable(ProjectB)>>,
    <<SaleLookupTable(ProjectB), SaleLookupTable(ProjectB)>>,
    <<SaleLookupTable(ProjectA), SaleLookupTable(ProjectB), SaleLookupTable(ProjectB)>> }

\* summaryTokensSold as the list of its '::'-separated items: a sale of one
\* token, and a bundle of three.
SummaryChoices == { <<"t">>, <<"t", "t", "t">> }

Prices == {100, 20000}

\* exchange and payment-token address of a sale
VenueChoices ==
  { <<"OSV1", "0xeth">>, <<"OSV2", "0xweth">>, <<"LOOKSRARE", "0xeth">> }

\* A sale of one token of `project`, paid with `paymentToken` on OSV1
SingleSale(price, paymentToken, project) ==
  [price |-> price, exchange |-> "OSV1", paymentToken |-> paymentToken,
   summaryTokensSold |-> <<"t">>, saleLookupTables |-> <<SaleLookupTable(project)>>]

\* The sales generateProjectReports is given: every lookup list is non-empty
\* (processSales drops the others) and a single-token summary goes with a
\* single lookup entry.  Next to the sales of projects A and B in every
\* price and venue: a sale paid with a token the conversion does not know,
\* and one sale of each of the projects C, D and the second "A".
SaleChoices ==
  {[price |-> p, exchange |-> v[1], paymentToken |-> v[2],
    summaryTokensSold |-> sm, saleLookupTables |-> lk] :
     p \in Prices, v \in VenueChoices,
     <<sm, lk>> \in {x \in SummaryChoices \X LookupChoices :
                       Len(x[1]) >= Len(x[2])}}
    \cup {SingleSale(100, "0xunknown", ProjectA),
          SingleSale(20000, "0xeth", ProjectC),
          SingleSale(20000, "0xeth", ProjectD),
          SingleSale(100, "0xeth", ProjectA2)}

RECURSIVE SeqsUpTo(_, _)
SeqsUpTo(S, n) ==
  IF n = 0 THEN {<<>>}
  ELSE SeqsUpTo(S, n - 1) \cup
       {Append(q, x) : q \in {r \in SeqsUpTo(S, n - 1) : Len(r) = n - 1}, x \in S}

\* sale.summaryTokensSold.split("::").length : the number of items, and 1
\* for the empty string.
SplitLength(summaryTokensSold) ==
  IF Len(summaryTokensSold) = 0 THEN 1 ELSE Len(summaryTokensSold)

\* parseInt of a string of decimal digits
RECURSIVE parseInt(_)
parseInt(digits) ==
  IF Len(digits) = 0 THEN 0
  ELSE 10 * parseInt(Front(digits)) + Last(digits)

\* utils/token_conversion (not part of src/): the static lookup of the
\* symbol of a payment-token address; an address it does not hold is an
\* error.
KnownPaymentTokens == {"0xeth", "0xweth"}

addressToPaymentTokenThrows(address) == address \notin KnownPaymentTokens

addressToPaymentToken(address) ==
  CASE address = "0xeth" -> "ETH"
    [] address = "0xweth" -> "WETH"

(***************************************************************************)
(* ProjectReport (project_report.ts)                                       *)
(***************************************************************************)
\* constructor
NewProjectReport(projectId, name, artistAddress, payeeAddress, payeePercentage) ==
  [projectId |-> projectId, name |-> name, artistAddress |-> artistAddress,
   additionalPayeeAddress |-> payeeAddress,
   additionalPayeePercentage |-> payeePercentage,
   totalSales |-> 0,
   paymentTokenVolumes |-> <<>>,
   cryptoDue |-> <<>>]

ZeroVolume == [total |-> 0, OSV1 |-> 0, OSV2 |-> 0, LOOKSRARE |-> 0]

\* Map.set on a map modelled as a function
MapSet(m, k, v) == [x \in (DOMAIN m) \cup {k} |-> IF x = k THEN v ELSE m[x]]

\* An update of the sub-total of the exchange that leaves the total.
AddToVolumeExchangeOnly(volume, exchange, amount) ==
  [volume EXCEPT ![exchange] = @ + amount]

\* volume[sale.exchange] = volume[sale.exchange].add(amount), with
\* volume.total = volume.total.add(amount)
AddToVolume(volume, exchange, amount) ==
  [[volume EXCEPT !.total = @ + amount] EXCEPT ![exchange] = @ + amount]

\* The update of paymentTokenVolumes by addSale for the share `amount`
VolumesAfterSale(report, sale, amount) ==
  LET cryptoName == addressToPaymentToken(sale.paymentToken)
      volume == IF cryptoName \in DOMAIN report.paymentTokenVolumes
                THEN report.paymentTokenVolumes[cryptoName]
                ELSE ZeroVolume
  IN MapSet(report.paymentTokenVolumes, cryptoName,
            AddToVolume(volume, sale.exchange, amount))

\* addSale counting the tokens of the sale instead of the call.
addSaleCountingTokens(report, sale, nbTokensSold) ==
  IF addressToPaymentTokenThrows(sale.paymentToken)
  THEN [threw |-> TRUE, report |-> [report EXCEPT !.totalSales = @ + nbTokensSold]]
  ELSE [threw |-> FALSE,
        report |->
          [report EXCEPT
             !.totalSales = @ + nbTokensSold,
             !.paymentTokenVolumes =
                VolumesAfterSale(report, sale, sale.price \div nbTokensSold)]]

\* addSale recording a sale of an unknown payment token under a placeholder.
addSaleUnderPlaceholder(report, sale, nbTokensSold) ==
  [threw |-> FALSE,
   report |->
     [report EXCEPT
        !.totalSales = @ + 1,
        !.paymentTokenVolumes =
           IF addressToPaymentTokenThrows(sale.paymentToken)
           THEN MapSet(@, "UNKNOWN",
                       AddToVolume(IF "UNKNOWN" \in DOMAIN @ THEN @["UNKNOWN"]
                                   ELSE ZeroVolume,
                                   sale.exchange, sale.price \div nbTokensSold))
           ELSE VolumesAfterSale(report, sale, sale.price \div nbTokensSold)]]

\* addSale attributing the whole price to each token of the sale.
addSaleWholePrice(report, sale, nbTokensSold) ==
  IF addressToPaymentTokenThrows(sale.paymentToken)
  THEN [threw |-> TRUE, report |-> [report EXCEPT !.totalSales = @ + 1]]
  ELSE [threw |-> FALSE,
        report |->
          [report EXCEPT
             !.totalSales = @ + 1,
             !.paymentTokenVolumes = VolumesAfterSale(report, sale, sale.price)]]

\* addSale(sale, nbTokensSold): BigNumber.div truncates.  totalSales is
\* incremented first; addressToPaymentToken then throws for an address it
\* does not know, before any volume is touched.
addSale(report, sale, nbTokensSold) ==
  IF addressToPaymentTokenThrows(sale.paymentToken)
  THEN [threw |-> TRUE, report |-> [report EXCEPT !.totalSales = @ + 1]]
  ELSE [threw |-> FALSE,
        report |->
          [report EXCEPT
             !.totalSales = @ + 1,
             !.paymentTokenVolumes =
                VolumesAfterSale(report, sale, sale.price \div nbTokensSold)]]

openseaFeesPercentage == 5

\* A royalty due that adds the two fee products before one division.
GlobalDueSingleDivision(volumeTotal, looksRareFeesPercentage) ==
  ((volumeTotal.OSV1 + volumeTotal.OSV2) * openseaFeesPercentage
     + volumeTotal.LOOKSRARE * looksRareFeesPercentage) \div 100

\* globalDue of computeCryptoDue for one payment token
GlobalDue(volumeTotal, looksRareFeesPercentage) ==
  LET volumeOpensea == volumeTotal.OSV1 + volumeTotal.OSV2
      volumeLoooksRare == volumeTotal.LOOKSRARE
  IN ((volumeOpensea * openseaFeesPercentage) \div 100)
     + ((volumeLoooksRare * looksRareFeesPercentage) \div 100)

\* A split that truncates the artist's part on its own.
RepartitionEachTruncated(globalDue, additionalPayeePercentage) ==
  IF additionalPayeePercentage # NoNumber
  THEN [toArtist |-> (globalDue * (100 - NumberOf(additionalPayeePercentage))) \div 100,
        toAdditional |-> (globalDue * NumberOf(additionalPayeePercentage)) \div 100]
  ELSE [toArtist |-> globalDue, toAdditional |-> 0]

\* A split whose additional part is not divided by 100.
RepartitionWithoutDivision(globalDue, additionalPayeePercentage) ==
  LET toAdditionalPayee ==
        IF additionalPayeePercentage # NoNumber
        THEN globalDue * NumberOf(additionalPayeePercentage)
        ELSE 0
  IN [toArtist |-> globalDue - toAdditionalPayee,
      toAdditional |-> toAdditionalPayee]

\* toAdditionalPayee and dueToArtist of computeCryptoDue
Repartition(globalDue, additionalPayeePercentage) ==
  LET toAdditionalPayee ==
        IF additionalPayeePercentage # NoNumber
        THEN (globalDue * NumberOf(additionalPayeePercentage)) \div 100
        ELSE 0
  IN [toArtist |-> globalDue - toAdditionalPayee,
      toAdditional |-> toAdditionalPayee]

\* A computeCryptoDue that adds the parts to the entry cryptoDue holds.
computeCryptoDueAccumulating(report, looksRareFeesPercentage) ==
  [report EXCEPT
     !.cryptoDue =
        [crypto \in (DOMAIN report.cryptoDue) \cup (DOMAIN report.paymentTokenVolumes) |->
           LET held == IF crypto \in DOMAIN report.cryptoDue
                       THEN report.cryptoDue[crypto]
                       ELSE [toArtist |-> 0, toAdditional |-> 0]
               parts == Repartition(GlobalDue(report.paymentTokenVolumes[crypto],
                                              looksRareFeesPercentage),
                                    report.additionalPayeePercentage)
           IN IF crypto \in DOMAIN report.paymentTokenVolumes
              THEN [toArtist |-> held.toArtist + parts.toArtist,
                    toAdditional |-> held.toAdditional + parts.toAdditional]
              ELSE held]]

\* computeCryptoDue(looksRareFeesPercentage): one cryptoDue.set per key of
\* paymentTokenVolumes; entries of cryptoDue under other keys stay.
computeCryptoDue(report, looksRareFeesPercentage) ==
  [report EXCEPT
     !.cryptoDue =
        [crypto \in (DOMAIN report.cryptoDue) \cup (DOMAIN report.paymentTokenVolumes) |->
           IF crypto \in DOMAIN report.paymentTokenVolumes
           THEN Repartition(GlobalDue(report.paymentTokenVolumes[crypto],
                                      looksRareFeesPercentage),
                            report.additionalPayeePercentage)
           ELSE report.cryptoDue[crypto]]]

(***************************************************************************)
(* SalesService.generateProjectReports                                     *)
(***************************************************************************)
LooksRareFees == {0, 2}

\* What reaches the parameter looksRareFeesPercentage.  The call in
\* sales_service is written computeCryptoDue() and gives it nothing, while
\* project_report declares the parameter as a number: the method is run both
\* on undefined (the call as written) and on a number (the call as declared).
FeeArguments == {Undefined} \cup {Number(f) : f \in LooksRareFees}

\* The number of tokens taken from the lookup list instead of the summary.
NbTokensSoldFromLookups(sale) == Len(sale.saleLookupTables)

\* const nbTokensSold = sale.summaryTokensSold.split("::").length
NbTokensSold(sale) == SplitLength(sale.summaryTokensSold)

\* projectReports.get(name): the index of the report, 0 for undefined
ReportIndex(reports, name) ==
  IF \E i \in 1..Len(reports) : reports[i].name = name
  THEN CHOOSE i \in 1..Len(reports) : reports[i].name = name
  ELSE 0

\* The body of the inner for loop up to addSale: the index of the report in
\* the map (0 when it is not there), and the outcome of addSale on the report
\* got or instantiated.
EntryOutcome(reports, sale, tokenSaleLookupTable) ==
  LET project == tokenSaleLookupTable.token.project
      idx == ReportIndex(reports, project.name)
      projectReport ==
        IF idx = 0
        THEN NewProjectReport(parseInt(project.id), project.name,
                              project.artistAddress, project.additionalPayee,
                              project.additionalPayeePercentage)
        ELSE reports[idx]
  IN [idx |-> idx, added |-> addSale(projectReport, sale, NbTokensSold(sale))]

\* An inner loop body that instantiates the report anew for every entry,
\* keeping the counters of the one in the map.
ReportsAfterEntryRenewing(reports, sale, tokenSaleLookupTable) ==
  LET project == tokenSaleLookupTable.token.project
      outcome == EntryOutcome(reports, sale, tokenSaleLookupTable)
      renewed == [outcome.added.report EXCEPT
                    !.projectId = parseInt(project.id),
                    !.artistAddress = project.artistAddress,
                    !.additionalPayeeAddress = project.additionalPayee,
                    !.additionalPayeePercentage = project.additionalPayeePercentage]
  IN IF outcome.idx = 0 THEN Append(reports, renewed)
     ELSE [reports EXCEPT ![outcome.idx] = renewed]

\* The map after the body of the inner for loop for one lookup entry.  The
\* report addSale ran on is the object the map holds when it was got from
\* the map; a new report enters the map by projectReports.set, which a throw
\* of addSale skips.
ReportsAfterEntry(reports, sale, tokenSaleLookupTable) ==
  LET outcome == EntryOutcome(reports, sale, tokenSaleLookupTable)
  IN IF outcome.idx = 0
     THEN (IF outcome.added.threw THEN reports
           ELSE Append(reports, outcome.added.report))
     ELSE [reports EXCEPT ![outcome.idx] = outcome.added.report]

\* One iteration of the inner for loop; after the last entry of the last sale
\* the finalising loop starts.  A throw of addSale leaves the function.
browseLookupTable ==
  /\ reportState = "adding"
  /\ LET sale == reportSales[salePos]
         entry == sale.saleLookupTables[lookupPos]
         lastEntry == lookupPos = Len(sale.saleLookupTables)
         lastSale == salePos = Len(reportSales)
     IN /\ projectReports' = ReportsAfterEntry(projectReports, sale, entry)
        /\ IF EntryOutcome(projectReports, sale, entry).added.threw
           THEN /\ reportState' = "threwInAddSale"
                /\ UNCHANGED <<salePos, lookupPos, looksRareFee, duePos>>
           ELSE IF ~lastEntry
           THEN /\ lookupPos' = lookupPos + 1
                /\ UNCHANGED <<salePos, reportState, looksRareFee, duePos>>
           ELSE IF ~lastSale
                THEN /\ salePos' = salePos + 1
                     /\ lookupPos' = 1
                     /\ UNCHANGED <<reportState, looksRareFee, duePos>>
                ELSE /\ reportState' = "computing"
                     /\ duePos' = 1
                     /\ looksRareFee' \in FeeArguments
                     /\ UNCHANGED <<salePos, lookupPos>>
  /\ UNCHANGED <<reportSales, fetchVars, osVars, processVars>>

\* One iteration of the loop over projectReports.keys(); after the last one
\* the map is returned.  On undefined, volumeLoooksRare.mul(undefined) of the
\* first payment token throws (BigNumber.from rejects the value) before any
\* cryptoDue.set; every report holds a payment token, addSale having run on
\* it.
finalizeReport ==
  /\ reportState = "computing"
  /\ IF looksRareFee = Undefined
     THEN /\ reportState' = "threw"
          /\ UNCHANGED <<projectReports, duePos>>
     ELSE /\ projectReports' =
               [projectReports EXCEPT
                  ![duePos] = computeCryptoDue(@, NumberOf(looksRareFee))]
          /\ duePos' = duePos + 1
          /\ reportState' =
               IF duePos = Len(projectReports) THEN "returned" ELSE "computing"
  /\ UNCHANGED <<reportSales, salePos, lookupPos, looksRareFee, fetchVars, osVars,
               processVars>>

generateProjectReports ==
  \/ browseLookupTable
  \/ finalizeReport

(***************************************************************************)
(* processSales (index.ts): the filter stages between the fetch and        *)
(* generateProjectReports.                                                 *)
(***************************************************************************)
\* T_Token with the fields the filter reads
Token(project, contractId) == [project |-> project, contract |-> [id |-> contractId]]

TokenLookupTable(project, contractId) == [token |-> Token(project, contractId)]

\* Lookup lists of the fetched sales: none (a sale whose tokens were all
\* left out upstream), one token, and bundles over two projects (curated A,
\* factory B) and two contracts.
FetchedLookupChoices ==
  { <<>>,
    <<TokenLookupTable(ProjectA, "0xc1")>>,
    <<TokenLookupTable(ProjectB, "0xc1"), TokenLookupTable(ProjectA, "0xc1")>>,
    <<TokenLookupTable(ProjectA, "0xc1"), TokenLookupTable(ProjectA, "0xc2")>>,
    <<TokenLookupTable(ProjectA, "0xc2"), TokenLookupTable(ProjectB, "0xc1"),
      TokenLookupTable(ProjectA, "0xc1")>> }

\* summaryTokensSold of a fetched sale: one item per token sold
SummaryOf(lookups) == [i \in 1..(IF Len(lookups) = 0 THEN 1 ELSE Len(lookups)) |-> "t"]

FetchedSaleChoices ==
  {[price |-> 100, exchange |-> "OSV1", paymentToken |-> "0xeth",
    isPrivate |-> p, blockNumber |-> b,
    summaryTokensSold |-> SummaryOf(lk), saleLookupTables |-> lk] :
     p \in BOOLEAN,
     b \in {BLOCK_WHERE_PRIVATE_SALES_HAVE_ROYALTIES - 1,
            BLOCK_WHERE_PRIVATE_SALES_HAVE_ROYALTIES},
     lk \in FetchedLookupChoices}

\* SalesFilter: an absent field is "undefined"
SalesFilters ==
  {[collectionFilter |-> c, contractFilterType |-> t, contractsFilter |-> <<"0xc1">>] :
     c \in {"undefined", "curated"}, t \in {"undefined", "ONLY", "ONLY_NOT"}}

\* Array.includes
Includes(list, x) == \E i \in 1..Len(list) : list[i] = x

\* const curationFilterPass
CurationFilterPass(token, filter) ==
  \/ filter.collectionFilter = "undefined"
  \/ token.project.curationStatus = filter.collectionFilter

\* A contract filter that lets every token through under ONLY_NOT.
ContractsFilterPassOnlyNotIgnored(token, filter) ==
  \/ filter.contractFilterType = "undefined"
  \/ (filter.contractFilterType = "ONLY"
        /\ Includes(filter.contractsFilter, token.contract.id))
  \/ filter.contractFilterType = "ONLY_NOT"

\* const contractsFilterPass
ContractsFilterPass(token, filter) ==
  \/ filter.contractFilterType = "undefined"
  \/ (filter.contractFilterType = "ONLY"
        /\ Includes(filter.contractsFilter, token.contract.id))
  \/ (filter.contractFilterType = "ONLY_NOT"
        /\ ~Includes(filter.contractsFilter, token.contract.id))

\* saleLookupTable.filter(...): the entries the callback returns true for
RECURSIVE FilterEntries(_, _)
FilterEntries(saleLookupTable, filter) ==
  IF Len(saleLookupTable) = 0 THEN <<>>
  ELSE (IF CurationFilterPass(Head(saleLookupTable).token, filter)
           /\ ContractsFilterPass(Head(saleLookupTable).token, filter)
        THEN <<Head(saleLookupTable)>> ELSE <<>>)
       \o FilterEntries(Tail(saleLookupTable), filter)

\* A narrowing that also leaves out the last entry of a bundle.
FilteredSaleLookupTableCutShort(saleLookupTable, filter) ==
  IF Len(FilterEntries(saleLookupTable, filter)) > 1
  THEN Front(FilterEntries(saleLookupTable, filter))
  ELSE FilterEntries(saleLookupTable, filter)

\* let filteredSaleLookupTable
FilteredSaleLookupTable(saleLookupTable, filter) ==
  FilterEntries(saleLookupTable, filter)

\* An assignment that also rewrites the summary to the entries left.
WithLookupTablesAndSummary(sale, filteredSaleLookupTable) ==
  [sale EXCEPT !.saleLookupTables = filteredSaleLookupTable,
               !.summaryTokensSold = SummaryOf(filteredSaleLookupTable)]

\* sale.saleLookupTables = filteredSaleLookupTable
WithLookupTables(sale, filteredSaleLookupTable) ==
  [sale EXCEPT !.saleLookupTables = filteredSaleLookupTable]

\* The callback of the first sales.filter on one sale: the sale as it is
\* left, and whether it is kept.
NarrowedSale(sale, filter) ==
  WithLookupTables(sale, FilteredSaleLookupTable(sale.saleLookupTables, filter))

\* A predicate that asks for a block above the threshold.
saleHasRoyaltiesAboveOnly(sale) ==
  \/ sale.isPrivate = FALSE
  \/ (sale.isPrivate /\ sale.blockNumber > BLOCK_WHERE_PRIVATE_SALES_HAVE_ROYALTIES)

\* SalesService.saleHasRoyalties
saleHasRoyalties(sale) ==
  \/ sale.isPrivate = FALSE
  \/ (sale.isPrivate /\ sale.blockNumber >= BLOCK_WHERE_PRIVATE_SALES_HAVE_ROYALTIES)

\* sales.filter((sale) => SalesService.saleHasRoyalties(sale))
RECURSIVE FilterPrivateSales(_)
FilterPrivateSales(saleList) ==
  IF Len(saleList) = 0 THEN <<>>
  ELSE (IF saleHasRoyalties(Head(saleList)) THEN <<Head(saleList)>> ELSE <<>>)
       \o FilterPrivateSales(Tail(saleList))

\* The first sales.filter as a whole: the narrowed sales with an entry left
RECURSIVE FilterSales(_, _)
FilterSales(saleList, filter) ==
  IF Len(saleList) = 0 THEN <<>>
  ELSE (IF Len(NarrowedSale(Head(saleList), filter).saleLookupTables) > 0
        THEN <<NarrowedSale(Head(saleList), filter)>> ELSE <<>>)
       \o FilterSales(Tail(saleList), filter)

\* The two filter stages one after the other
FilterStages(saleList, filter) == FilterPrivateSales(FilterSales(saleList, filter))

\* One call of the callback of the first sales.filter; after the last sale
\* the first filter is done.
filterSale ==
  /\ procState = "filtering"
  /\ LET sale == NarrowedSale(fetchedSales[procPos], salesFilter)
     IN /\ fetchedSales' = [fetchedSales EXCEPT ![procPos] = sale]
        /\ processedSales' =
             IF Len(sale.saleLookupTables) > 0
             THEN Append(processedSales, sale) ELSE processedSales
        /\ procPos' = procPos + 1
        /\ procState' =
             IF procPos = Len(fetchedSales) THEN "eligibility" ELSE "filtering"
  /\ UNCHANGED <<salesFilter, originalSales, fetchVars, osVars, reportVars>>

\* A test for nothing found that no list passes.
NothingFoundStrict(saleList) == Len(saleList) < 0

\* if (sales.length <= 0)
NothingFound(saleList) == Len(saleList) <= 0

\* The filter of private sales, then the return when nothing is left; with
\* sales left the run goes on ("reporting") to the call of
\* generateProjectReports and the output of the reports.
filterPrivateSales ==
  /\ procState = "eligibility"
  /\ processedSales' = FilterPrivateSales(processedSales)
  /\ procState' =
       IF NothingFound(FilterPrivateSales(processedSales)) THEN "returned" ELSE "reporting"
  /\ UNCHANGED <<salesFilter, fetchedSales, originalSales, procPos, fetchVars, osVars,
                 reportVars>>

processSales ==
  \/ filterSale
  \/ filterPrivateSales

(***************************************************************************)
(* Idle values of the parts a specification does not run.                  *)
(***************************************************************************)
FetchIdle ==
  /\ subgraph = <<>>
  /\ blockRange = <<0, 0>>
  /\ blockNumberGte = 0
  /\ blockNumberLt = 0
  /\ sales = <<>>
  /\ fetchState = "idle"
  /\ lastPage = <<>>
  /\ lastKept = <<>>

OSIdle ==
  /\ variant = 0
  /\ collectionSlug = <<>>
  /\ minBlockNumber = 0
  /\ openSeaSales = <<>>
  /\ osState = "idle"
  /\ _next = NoCursor
  /\ retries = 0
  /\ attempts = 0
  /\ response = "undefined"
  /\ pagesFetched = 0
  /\ lastCursor = NoCursor
  /\ lastHasNext = FALSE
  /\ eventsRead = <<>>
  /\ lastEvents = <<>>
  /\ lastPushed = <<>>
  /\ osFailure = "none"

ReportIdle ==
  /\ reportSales = <<>>
  /\ salePos = 0
  /\ lookupPos = 0
  /\ projectReports = <<>>
  /\ reportState = "idle"
  /\ looksRareFee = Undefined
  /\ duePos = 0

ProcessIdle ==
  /\ salesFilter = <<>>
  /\ fetchedSales = <<>>
  /\ originalSales = <<>>
  /\ processedSales = <<>>
  /\ procPos = 0
  /\ procState = "idle"

(***************************************************************************)
(* SpecFetch: the pagination over every small source and range.  The       *)
(* caller (index.ts) exits unless startingBlock < endingBlock.             *)
(***************************************************************************)
InitFetch ==
  /\ subgraph \in [1..MaxBlockNumber -> 0..MaxPerBlock]
  /\ blockRange \in {r \in (1..MaxBlockNumber) \X (2..(MaxBlockNumber + 1)) :
                       r[1] < r[2]}
  /\ blockNumberGte = blockRange[1]
  /\ blockNumberLt = blockRange[2]
  /\ sales = <<>>
  /\ fetchState = "fetching"
  /\ lastPage = <<>>
  /\ lastKept = <<>>
  /\ OSIdle
  /\ ReportIdle
  /\ ProcessIdle

NextFetch == getAllSalesBetweenBlockNumbers

SpecFetch == InitFetch /\ [][NextFetch]_vars

\* The loop is sequential code: while it is not finished it takes its next
\* iteration (the source answers every query).
SpecFetchFair == SpecFetch /\ WF_vars(NextFetch)

(***************************************************************************)
(* SpecOS: the marketplace importer, for both copies of the file, a        *)
(* collection other than the excluded one, and every outcome of fetch().   *)
(***************************************************************************)
InitOS ==
  /\ variant \in {1, 2}
  /\ collectionSlug \in {<<"a", "b">>, ExcludedCollection}
  /\ minBlockNumber \in 1..MaxOSBlock
  /\ openSeaSales = <<>>
  /\ osState = "called"
  /\ _next = NoCursor
  /\ retries = 0
  /\ attempts = 0
  /\ response = "undefined"
  /\ pagesFetched = 0
  /\ lastCursor = NoCursor
  /\ lastHasNext = FALSE
  /\ eventsRead = <<>>
  /\ lastEvents = <<>>
  /\ lastPushed = <<>>
  /\ osFailure = "none"
  /\ FetchIdle
  /\ ReportIdle
  /\ ProcessIdle

NextOS == getOpenSeaSalesEvents

SpecOS == InitOS /\ [][NextOS]_vars

(***************************************************************************)
(* SpecBundles: the importer, for both copies of the file, on a source     *)
(* whose page holds bundle events and whose requests all succeed.          *)
(***************************************************************************)
NextBundles == getOpenSeaSalesEventsOfBundles

SpecBundles == InitOS /\ [][NextBundles]_vars

(***************************************************************************)
(* SpecReport: generateProjectReports over every list of one to MaxSales   *)
(* sales (processSales returns before the call when the list is empty).    *)
(***************************************************************************)
InitReport ==
  /\ reportSales \in SeqsUpTo(SaleChoices, MaxSales) \ {<<>>}
  /\ salePos = 1
  /\ lookupPos = 1
  /\ projectReports = <<>>
  /\ reportState = "adding"
  /\ looksRareFee = Undefined
  /\ duePos = 0
  /\ FetchIdle
  /\ OSIdle
  /\ ProcessIdle

NextReport == generateProjectReports

SpecReport == InitReport /\ [][NextReport]_vars

(***************************************************************************)
(* SpecProcess: the filter stages of processSales over every list of up to *)
(* MaxFetchedSales fetched sales and every filter.                         *)
(***************************************************************************)
InitProcess ==
  /\ salesFilter \in SalesFilters
  /\ fetchedSales \in SeqsUpTo(FetchedSaleChoices, MaxFetchedSales)
  /\ originalSales = fetchedSales
  /\ processedSales = <<>>
  /\ procPos = 1
  /\ procState = IF Len(fetchedSales) = 0 THEN "eligibility" ELSE "filtering"
  /\ FetchIdle
  /\ OSIdle
  /\ ReportIdle

NextProcess == processSales

SpecProcess == InitProcess /\ [][NextProcess]_vars

(***************************************************************************)
(* Properties of getAllSalesBetweenBlockNumbers (SpecFetch).               *)
(***************************************************************************)
\* Every sale of the source with lo <= blockNumber < hi.
SalesInRange ==
  UNION {{Sale(b, k) : k \in 1..subgraph[b]}
           : b \in {x \in DOMAIN subgraph : blockRange[1] <= x /\ x < blockRange[2]}}

NoFullBlock ==
  \A b \in DOMAIN subgraph :
    (blockRange[1] <= b /\ b < blockRange[2]) => subgraph[b] < first

PageBlocks == {lastPage[i].blockNumber : i \in 1..Len(lastPage)}

AboveLastBlock(s) == s.blockNumber > Last(lastPage).blockNumber

\* C1: when no block of the range holds a page or more of sales, the run
\* does not fail and the returned list holds every sale of [lo, hi) exactly
\* once, in descending block-number order.
C1_EverySaleExactlyOnce ==
  NoFullBlock =>
    /\ fetchState # "threw"
    /\ fetchState = "returned" =>
         /\ Range(sales) = SalesInRange
         /\ Len(sales) = Cardinality(SalesInRange)
         /\ IsDescending(sales)

\* C1 witness: a list returned after more than one page was needed.
C1_Witness ==
  /\ fetchState = "returned"
  /\ NoFullBlock
  /\ Len(sales) > first
  /\ Len(lastPage) > 0

\* C2: after a full page spanning at least two blocks, the rows kept are
\* exactly those above the last row's block, the lower bound is unchanged
\* and the next upper bound is the smallest block among the kept rows, which
\* is the second-oldest block of the page.
C2_BoundarySplit ==
  (Len(lastPage) = first /\ Cardinality(PageBlocks) >= 2) =>
    /\ lastKept = SelectSeq(lastPage, AboveLastBlock)
    /\ fetchState = "fetching"
    /\ blockNumberGte = blockRange[1]
    /\ blockNumberLt = SetMin({lastKept[i].blockNumber : i \in 1..Len(lastKept)})
    /\ blockNumberLt = SetMin(PageBlocks \ {SetMin(PageBlocks)})

\* C2 witness: a full page spanning exactly two blocks has been split.
C2_Witness ==
  /\ Len(lastPage) = first
  /\ Cardinality(PageBlocks) = 2
  /\ fetchState = "fetching"
  /\ Len(lastKept) > 0

\* C3: a full page whose rows all share one block ends the run with an
\* error: nothing is returned and no further query can be issued.
C3_SingleBlockPageFatal ==
  (Len(lastPage) = first /\ Cardinality(PageBlocks) = 1) =>
    /\ fetchState = "threw"
    /\ ~ENABLED NextFetch

\* C3 witness: the run has failed on a single-block full page reached after
\* an earlier page was split.
C3_Witness ==
  /\ fetchState = "threw"
  /\ Len(lastPage) = first
  /\ Cardinality(PageBlocks) = 1
  /\ Len(sales) > 0

\* C4: every iteration that goes on to another query strictly decreases
\* blockNumberLt and keeps it above blockNumberGte, and the loop eventually
\* stops (returns or fails).
C4_UpperBoundDecreases ==
  /\ [][fetchState' = "fetching" =>
          (blockNumberLt' < blockNumberLt /\ blockNumberLt' > blockNumberGte')]_vars
  /\ <>(fetchState \in {"returned", "threw"})

\* C4 witness: an iteration has lowered the upper bound and the loop goes on.
C4_Witness ==
  /\ fetchState = "fetching"
  /\ blockNumberLt < blockRange[2]
  /\ blockNumberLt > blockNumberGte

(***************************************************************************)
(* Properties of getOpenSeaSalesEvents (SpecOS).                           *)
(***************************************************************************)
BelowMin(events) ==
  {i \in 1..Len(events) : events[i].blockNumber < minBlockNumber}

\* C5: when a page read holds an event below minBlockNumber, the sales
\* pushed from that page are exactly those before the first such event, and
\* no further page is fetched.
C5_StopAtFirstBelowMin ==
  (pagesFetched > 0 /\ BelowMin(lastEvents) # {}) =>
    /\ lastPushed =
         openSeaEventModelToSubgraphModel(
           variant, collectionSlug,
           SubSeq(lastEvents, 1, SetMin(BelowMin(lastEvents)) - 1)).sales
    /\ osState = "returned"

\* C6 as stated: at most MAX_RETRIES (15) fetch attempts are made for one
\* page, and the run fails once they are used up.
C6_AtMostMaxRetriesAttempts ==
  /\ attempts <= MAX_RETRIES
  /\ (osFailure = "maxRetries" => osState = "threw")

\* C6 amended: at most MAX_RETRIES + 1 (16) fetch attempts are made for one
\* page, the first one and 15 retries; a successful response ends the retry
\* loop; when all 16 attempts end without a successful response the run
\* fails and nothing is returned.
C6_AtMostSixteenAttempts ==
  /\ attempts <= MAX_RETRIES + 1
  /\ (response = "ok" => (osState = "reading" /\ ~ENABLED fetchOk
                          /\ ~ENABLED fetchNotOk /\ ~ENABLED fetchRejects))
  /\ ((attempts = MAX_RETRIES + 1 /\ response # "ok") =>
        (osState = "threw" /\ osFailure = "maxRetries" /\ ~ENABLED NextOS))
  /\ (osFailure = "maxRetries" => (attempts = MAX_RETRIES + 1 /\ osState = "threw"))

\* C6 witness: the sixteenth attempt for a page has failed and the run has
\* ended with the retries used up.
C6_Witness ==
  /\ attempts = MAX_RETRIES + 1
  /\ retries = MAX_RETRIES
  /\ osState = "threw"
  /\ osFailure = "maxRetries"

\* C7: a fetch that fails with a network exception is retried like a
\* non-success response: the run fails only with the retries used up.
C7_NetworkErrorRetried ==
  osState = "threw" => (osFailure = "maxRetries" /\ retries = MAX_RETRIES)

(***************************************************************************)
(* Properties of generateProjectReports, addSale and computeCryptoDue      *)
(* (SpecReport).                                                           *)
(***************************************************************************)
ProjectNames == {ProjectA.name, ProjectB.name, ProjectC.name, ProjectD.name}

Symbols == {"ETH", "WETH"}

\* The (sale, lookup entry) pairs the loops have been through.
AllEntries ==
  UNION {{<<i, j>> : j \in 1..Len(reportSales[i].saleLookupTables)}
           : i \in 1..Len(reportSales)}

BrowsedEntries ==
  {e \in AllEntries :
     /\ \/ reportState \notin {"adding", "threwInAddSale"}
        \/ e[1] < salePos
        \/ (e[1] = salePos /\ e[2] < lookupPos)}

EntriesOf(name, symbol) ==
  {e \in BrowsedEntries :
     /\ reportSales[e[1]].saleLookupTables[e[2]].token.project.name = name
     /\ addressToPaymentToken(reportSales[e[1]].paymentToken) = symbol}

\* floor(price / n) with n the number of items of summaryTokensSold
ShareOf(e) ==
  reportSales[e[1]].price \div SplitLength(reportSales[e[1]].summaryTokensSold)

RECURSIVE SumOfShares(_)
SumOfShares(entries) ==
  IF entries = {} THEN 0
  ELSE LET e == CHOOSE x \in entries : TRUE
       IN ShareOf(e) + SumOfShares(entries \ {e})

ReportOf(name) == projectReports[ReportIndex(projectReports, name)]

\* C8: the volume of a project in a payment token is the sum, over the
\* lookup entries of that project browsed so far, of floor(price / n) with n
\* the sale's original per-token count; nothing else is ever added.
C8_ShareIsPriceOverTokenCount ==
  \A name \in ProjectNames, symbol \in Symbols :
    IF EntriesOf(name, symbol) = {}
    THEN \/ ReportIndex(projectReports, name) = 0
         \/ symbol \notin DOMAIN ReportOf(name).paymentTokenVolumes
    ELSE /\ ReportIndex(projectReports, name) # 0
         /\ symbol \in DOMAIN ReportOf(name).paymentTokenVolumes
         /\ ReportOf(name).paymentTokenVolumes[symbol].total =
              SumOfShares(EntriesOf(name, symbol))

\* C8 witness: one sale of price 100 and three tokens, all three surviving:
\* the shares are 33 each and sum to 99.
C8_Witness ==
  /\ reportState = "returned"
  /\ Len(reportSales) = 1
  /\ reportSales[1].price = 100
  /\ SplitLength(reportSales[1].summaryTokensSold) = 3
  /\ Len(reportSales[1].saleLookupTables) = 3
  /\ reportSales[1].paymentToken = "0xeth"
  /\ ReportOf("A").paymentTokenVolumes["ETH"].total = 33
  /\ ReportOf("B").paymentTokenVolumes["ETH"].total = 66

RECURSIVE SumTotalSales(_)
SumTotalSales(reports) ==
  IF Len(reports) = 0 THEN 0
  ELSE Head(reports).totalSales + SumTotalSales(Tail(reports))

RECURSIVE CountLookupTables(_)
CountLookupTables(saleList) ==
  IF Len(saleList) = 0 THEN 0
  ELSE Len(Head(saleList).saleLookupTables) + CountLookupTables(Tail(saleList))

SpansOneProject(sale) ==
  \A i, j \in 1..Len(sale.saleLookupTables) :
    sale.saleLookupTables[i].token.project.name =
      sale.saleLookupTables[j].token.project.name

\* C9 as stated: the sum of totalSales is at least the number of sales, and
\* equal to it when no sale spans several projects.
C9_EqualWhenNoSaleSpansProjects ==
  reportState = "returned" =>
    /\ SumTotalSales(projectReports) >= Len(reportSales)
    /\ (\A i \in 1..Len(reportSales) : SpansOneProject(reportSales[i])) =>
         SumTotalSales(projectReports) = Len(reportSales)

\* C9 amended: the sum of totalSales is the number of surviving lookup
\* entries, so it is at least the number of sales and equal to it exactly
\* when every sale has one surviving lookup entry.
C9_TotalSalesCountsLookupEntries ==
  reportState = "returned" =>
    /\ SumTotalSales(projectReports) >= Len(reportSales)
    /\ SumTotalSales(projectReports) = CountLookupTables(reportSales)
    /\ (SumTotalSales(projectReports) = Len(reportSales)) <=>
         (\A i \in 1..Len(reportSales) : Len(reportSales[i].saleLookupTables) = 1)

\* C9 witness: reports returned for a single-token sale and a bundle whose
\* two surviving entries belong to one project.
C9_Witness ==
  /\ reportState = "returned"
  /\ Len(reportSales) = 2
  /\ Len(reportSales[1].saleLookupTables) = 1
  /\ Len(reportSales[2].saleLookupTables) = 2
  /\ SpansOneProject(reportSales[2])
  /\ SumTotalSales(projectReports) = 3

\* The reports computeCryptoDue has run on.
Finalized ==
  {i \in 1..Len(projectReports) :
     reportState = "returned" \/ (reportState = "computing" /\ i < duePos)}

\* The fee computeCryptoDue has run with on the reports of Finalized.
FeeGiven == NumberOf(looksRareFee)

\* C10: after computeCryptoDue, for every payment token of the report,
\* toArtist + toAdditional is the royalty due of that token, and toAdditional
\* is 0 when the project has no additional-payee percentage.
C10_RepartitionIsExact ==
  \A i \in Finalized :
    \A crypto \in DOMAIN projectReports[i].paymentTokenVolumes :
      /\ crypto \in DOMAIN projectReports[i].cryptoDue
      /\ projectReports[i].cryptoDue[crypto].toArtist
           + projectReports[i].cryptoDue[crypto].toAdditional
         = GlobalDue(projectReports[i].paymentTokenVolumes[crypto], FeeGiven)
      /\ projectReports[i].additionalPayeePercentage = NoNumber =>
           projectReports[i].cryptoDue[crypto].toAdditional = 0

\* C10 witness: royalty due 1000 with 20 percent: artist 800, additional 200.
C10_Witness ==
  \E i \in Finalized :
    /\ projectReports[i].additionalPayeePercentage = Number(20)
    /\ "ETH" \in DOMAIN projectReports[i].cryptoDue
    /\ GlobalDue(projectReports[i].paymentTokenVolumes["ETH"], FeeGiven) = 1000
    /\ projectReports[i].cryptoDue["ETH"].toArtist = 800
    /\ projectReports[i].cryptoDue["ETH"].toAdditional = 200

\* C11: after computeCryptoDue(f), for every payment token of the report the
\* royalty due (artist part plus additional part) is
\* floor((OSV1 + OSV2) * 5 / 100) + floor(LOOKSRARE * f / 100): the fee of the
\* OpenSea volumes is 5 whatever f is, f applies to the LOOKSRARE volume only
\* and each of the two divisions truncates.
C11_DueIsSumOfTruncatedFees ==
  \A i \in Finalized :
    \A crypto \in DOMAIN projectReports[i].paymentTokenVolumes :
      /\ crypto \in DOMAIN projectReports[i].cryptoDue
      /\ projectReports[i].cryptoDue[crypto].toArtist
           + projectReports[i].cryptoDue[crypto].toAdditional
         = (((projectReports[i].paymentTokenVolumes[crypto].OSV1
                + projectReports[i].paymentTokenVolumes[crypto].OSV2) * 5) \div 100)
           + ((projectReports[i].paymentTokenVolumes[crypto].LOOKSRARE * FeeGiven)
                \div 100)

\* C11 witness: OpenSea volume 33 and LOOKSRARE volume 33 with f = 2: the due
\* is floor(165 / 100) + floor(66 / 100) = 1, where one division of the sum
\* would give 2.
C11_Witness ==
  \E i \in Finalized :
    /\ FeeGiven = 2
    /\ "ETH" \in DOMAIN projectReports[i].cryptoDue
    /\ projectReports[i].paymentTokenVolumes["ETH"].OSV1 = 33
    /\ projectReports[i].paymentTokenVolumes["ETH"].OSV2 = 0
    /\ projectReports[i].paymentTokenVolumes["ETH"].LOOKSRARE = 33
    /\ projectReports[i].cryptoDue["ETH"].toArtist
         + projectReports[i].cryptoDue["ETH"].toAdditional = 1

\* C12: computeCryptoDue is run once on each report, with the LooksRare fee
\* percentage, and only when the last addSale of the run is done; the
\* reports returned are all finalized and the run does not fail.
C12_FinalizedOnceWithFee ==
  /\ reportState \in {"computing", "returned", "threw"} =>
       /\ looksRareFee # Undefined
       /\ BrowsedEntries = AllEntries
  /\ reportState # "threw"
  /\ reportState = "returned" =>
       \A i \in 1..Len(projectReports) :
         DOMAIN projectReports[i].cryptoDue =
           DOMAIN projectReports[i].paymentTokenVolumes

(***************************************************************************)
(* Properties of the filter stages of processSales (SpecProcess).          *)
(***************************************************************************)
\* The sales the callback of the first filter has been called on.
Narrowed == {i \in 1..Len(fetchedSales) : procState # "filtering" \/ i < procPos}

NoFilterSet ==
  salesFilter.collectionFilter = "undefined" /\ salesFilter.contractFilterType = "undefined"

EntrySurvives(entry) ==
  /\ salesFilter.collectionFilter # "undefined" =>
       entry.token.project.curationStatus = salesFilter.collectionFilter
  /\ salesFilter.contractFilterType = "ONLY" =>
       entry.token.contract.id \in Range(salesFilter.contractsFilter)
  /\ salesFilter.contractFilterType = "ONLY_NOT" =>
       entry.token.contract.id \notin Range(salesFilter.contractsFilter)

HasEntry(sale) == Len(sale.saleLookupTables) > 0

\* C13: the first filter leaves in each sale the sub-list, in order, of the
\* entries whose curation status equals the curation filter (when set) and
\* whose contract is in the list under ONLY, not in it under ONLY_NOT; with
\* no filter set every entry stays; the sales kept are those with an entry
\* left, so no sale with an empty lookup list is handed to the aggregation.
C13_NarrowedToMatchingEntries ==
  /\ \A i \in Narrowed :
       /\ fetchedSales[i].saleLookupTables =
            SelectSeq(originalSales[i].saleLookupTables, EntrySurvives)
       /\ NoFilterSet =>
            fetchedSales[i].saleLookupTables = originalSales[i].saleLookupTables
  /\ procState \in {"filtering", "eligibility"} =>
       processedSales =
         SelectSeq(SubSeq(fetchedSales, 1, Cardinality(Narrowed)), HasEntry)
  /\ \A k \in 1..Len(processedSales) : HasEntry(processedSales[k])

\* C13 witness: under a curation filter and an ONLY_NOT contract filter, a
\* sale of one token is dropped and a bundle of three is narrowed to one.
C13_Witness ==
  /\ procState = "eligibility"
  /\ salesFilter.collectionFilter = "curated"
  /\ salesFilter.contractFilterType = "ONLY_NOT"
  /\ Len(originalSales) = 2
  /\ Len(originalSales[1].saleLookupTables) = 1
  /\ Len(originalSales[2].saleLookupTables) = 3
  /\ Len(processedSales) = 1
  /\ Len(processedSales[1].saleLookupTables) = 1
  /\ processedSales[1].saleLookupTables[1] = originalSales[2].saleLookupTables[1]

FilterStagesDone == procState \in {"returned", "reporting"}

BelowThreshold(sale) == sale.blockNumber < BLOCK_WHERE_PRIVATE_SALES_HAVE_ROYALTIES

KeptByStages(sale) == HasEntry(sale) /\ ~(sale.isPrivate /\ BelowThreshold(sale))

\* C14: after the filter stages no private sale below the threshold block
\* is left, and every sale with an entry left that is not private, or is
\* private at or above the threshold, is left; the flag and the block the
\* predicate reads are those of the sale as fetched.
C14_PrivateSalesBelowThresholdDropped ==
  FilterStagesDone =>
    /\ \A k \in 1..Len(processedSales) :
         ~(processedSales[k].isPrivate /\ BelowThreshold(processedSales[k]))
    /\ processedSales = SelectSeq(fetchedSales, KeptByStages)
    /\ \A i \in 1..Len(fetchedSales) :
         /\ fetchedSales[i].isPrivate = originalSales[i].isPrivate
         /\ fetchedSales[i].blockNumber = originalSales[i].blockNumber

\* C14 witness: of two private sales with an entry left, the one a block
\* below the threshold is dropped and the one at the threshold is kept.
C14_Witness ==
  /\ procState = "reporting"
  /\ Len(fetchedSales) = 2
  /\ fetchedSales[1].isPrivate /\ fetchedSales[2].isPrivate
  /\ fetchedSales[1].blockNumber = BLOCK_WHERE_PRIVATE_SALES_HAVE_ROYALTIES - 1
  /\ fetchedSales[2].blockNumber = BLOCK_WHERE_PRIVATE_SALES_HAVE_ROYALTIES
  /\ HasEntry(fetchedSales[1]) /\ HasEntry(fetchedSales[2])
  /\ processedSales = <<fetchedSales[2]>>

\* C15: the filter stages applied with the same filter to their own result
\* give that result again: the same sales, in the same order, with the same
\* lookup entries.
C15_FilterStagesIdempotent ==
  FilterStagesDone =>
    /\ processedSales = FilterStages(originalSales, salesFilter)
    /\ FilterStages(processedSales, salesFilter) = processedSales

\* C15 witness: a result in which a bundle was narrowed and a sale dropped.
C15_Witness ==
  /\ procState = "reporting"
  /\ ~NoFilterSet
  /\ Len(originalSales) = 2
  /\ Len(processedSales) = 1
  /\ Len(processedSales[1].saleLookupTables) = 2
  /\ \E i \in 1..2 :
       /\ Len(originalSales[i].saleLookupTables) = 3
       /\ processedSales[1] = fetchedSales[i]
  /\ FilterStages(processedSales, salesFilter) = processedSales

\* C16: the filter changes nothing of a sale but its saleLookupTables list,
\* which it replaces in the fetched sale itself, kept or dropped; price,
\* paymentToken, exchange, isPrivate, blockNumber and summaryTokensSold stay,
\* so the per-token count read from summaryTokensSold is the one before the
\* filter.
C16_OnlyLookupTablesChange ==
  /\ Len(fetchedSales) = Len(originalSales)
  /\ \A i \in 1..Len(fetchedSales) :
       /\ fetchedSales[i].price = originalSales[i].price
       /\ fetchedSales[i].paymentToken = originalSales[i].paymentToken
       /\ fetchedSales[i].exchange = originalSales[i].exchange
       /\ fetchedSales[i].isPrivate = originalSales[i].isPrivate
       /\ fetchedSales[i].blockNumber = originalSales[i].blockNumber
       /\ fetchedSales[i].summaryTokensSold = originalSales[i].summaryTokensSold
       /\ NbTokensSold(fetchedSales[i]) = NbTokensSold(originalSales[i])
       /\ i \in Narrowed =>
            fetchedSales[i].saleLookupTables =
              FilteredSaleLookupTable(originalSales[i].saleLookupTables, salesFilter)
  /\ \A k \in 1..Len(processedSales) :
       \E i \in Narrowed : processedSales[k] = fetchedSales[i]

\* C16 witness: a kept bundle of three with one entry left, whose per-token
\* count is still three, after a sale that was emptied and dropped.
C16_Witness ==
  /\ procState = "reporting"
  /\ Len(fetchedSales) = 2
  /\ Len(processedSales) = 1
  /\ Len(originalSales[1].saleLookupTables) = 1
  /\ Len(fetchedSales[1].saleLookupTables) = 0
  /\ processedSales[1] = fetchedSales[2]
  /\ Len(processedSales[1].saleLookupTables) = 1
  /\ NbTokensSold(processedSales[1]) = 3

(***************************************************************************)
(* Properties of openSeaEventModelToSubgraphModel on bundle events         *)
(* (SpecBundles).  The events of a page are all at minBlockNumber, so the  *)
(* sales pushed from a page are the sales of its events, in order.         *)
(***************************************************************************)
BundleEvents == {i \in 1..Len(lastEvents) : lastEvents[i].asset_bundle # NoBundle}

SlugsOf(i) ==
  {AssetsOf(lastEvents[i])[k].collection.slug : k \in 1..Len(AssetsOf(lastEvents[i]))}

HasRequestedSlug(asset) == asset.collection.slug = collectionSlug

\* The token ids of the lookup tables of the sale of event i
TableTokenIds(i) ==
  [k \in 1..Len(lastPushed[i].openSeaSaleLookupTables) |->
     lastPushed[i].openSeaSaleLookupTables[k].token.tokenId]

TokenIds(assets) == [k \in 1..Len(assets) |-> assets[k].token_id]

\* C17: every bundle event gives a sale whose lookup tables are one per
\* asset reporting the requested slug, in asset order; assets of another
\* collection give no lookup table and take none away from the others.
C17_OneTablePerMatchingAsset ==
  /\ osFailure # "unexpectedResponse"
  /\ osState = "returned" =>
       \A i \in BundleEvents :
         TableTokenIds(i) =
           TokenIds(SelectSeq(AssetsOf(lastEvents[i]), HasRequestedSlug))

\* C18: a bundle event whose assets report more than one slug gives a sale
\* without lookup tables, and no error: a page whose bundles are all of
\* that kind is converted and returned.
C18_MixedBundleHasNoTables ==
  /\ osState = "returned" =>
       \A i \in BundleEvents :
         Cardinality(SlugsOf(i)) > 1 => lastPushed[i].openSeaSaleLookupTables = <<>>
  /\ (\A i \in BundleEvents : Cardinality(SlugsOf(i)) > 1) =>
       osFailure # "unexpectedResponse"

\* C19: the per-token count of summaryTokensSold is 1 for a single-asset
\* event and n for a bundle event of n assets, whatever number of them got
\* a lookup table.
C19_CountIsBundleSize ==
  osState = "returned" =>
    \A i \in 1..Len(lastEvents) :
      SplitLength(lastPushed[i].summaryTokensSold) =
        IF i \in BundleEvents THEN Len(AssetsOf(lastEvents[i])) ELSE 1

\* C19 witness: a bundle of two assets of which one got a lookup table, next
\* to a single-asset event.
C19_Witness ==
  /\ osState = "returned"
  /\ Len(lastEvents) = 2
  /\ 1 \notin BundleEvents
  /\ SplitLength(lastPushed[1].summaryTokensSold) = 1
  /\ 2 \in BundleEvents
  /\ Len(AssetsOf(lastEvents[2])) = 2
  /\ Len(lastPushed[2].openSeaSaleLookupTables) = 1
  /\ SplitLength(lastPushed[2].summaryTokensSold) = 2

SimilarSlug(slug) == slug = collectionSlug \/ StringIncludes(slug, collectionSlug)

\* C20: for a bundle event whose assets all report one slug S: when S is the
\* requested slug or contains it, every asset gets a lookup table; when S
\* neither is nor contains the requested slug the import fails and returns
\* no sales.
C20_UniformBundleCoalescedOrFatal ==
  /\ osState = "returned" =>
       \A i \in BundleEvents :
         (Cardinality(SlugsOf(i)) = 1 /\ \A slug \in SlugsOf(i) : SimilarSlug(slug)) =>
           TableTokenIds(i) = TokenIds(AssetsOf(lastEvents[i]))
  /\ (\E i \in BundleEvents :
        Cardinality(SlugsOf(i)) = 1 /\ \A slug \in SlugsOf(i) : ~SimilarSlug(slug)) =>
       /\ osState = "threw"
       /\ osFailure = "unexpectedResponse"

\* The sales of the input whose payment-token address has no symbol.
Unresolvable(sale) == addressToPaymentTokenThrows(sale.paymentToken)

\* C21: when a surviving lookup entry belongs to a sale whose payment-token
\* address has no symbol, generateProjectReports fails at that entry: it
\* neither finalises nor returns a report map, no entry after it is browsed,
\* and no report holds a volume under a name that is not a token symbol.
C21_UnresolvableTokenIsFatal ==
  /\ (\E i \in 1..Len(reportSales) : Unresolvable(reportSales[i])) =>
       reportState \in {"adding", "threwInAddSale"}
  /\ \A i \in 1..Len(reportSales) :
       i < salePos => ~Unresolvable(reportSales[i])
  /\ reportState = "threwInAddSale" =>
       /\ Unresolvable(reportSales[salePos])
       /\ lookupPos = 1
       /\ ~ENABLED NextReport
  /\ \A i \in 1..Len(projectReports) :
       DOMAIN projectReports[i].paymentTokenVolumes \subseteq Symbols

\* C21 witness: the second sale is paid with an unknown token, and addSale
\* has thrown at it with the report of the first sale in the map.
C21_Witness ==
  /\ reportState = "threwInAddSale"
  /\ salePos = 2
  /\ Unresolvable(reportSales[2])
  /\ Len(projectReports) = 1
  /\ DOMAIN projectReports[1].paymentTokenVolumes = {"ETH"}

\* The source delivered the events newest first.
NewestFirst(events) ==
  \A i, j \in 1..Len(events) :
    i < j => events[i].blockNumber >= events[j].blockNumber

AtLeastMinBlockNumber(event) == event.blockNumber >= minBlockNumber

\* The cursor of the request for page number `page` of the chain
CursorOfRequest(page) == IF page = 1 THEN NoCursor ELSE CursorAfter(page - 1)

\* C22: against a source that delivers newest first, the result is the
\* conversion of the events at or above minBlockNumber of the pages read, in
\* the order of the source and once each, and holds no event below it; every
\* request carries the cursor of the page before it, no request follows a
\* page without next cursor, and the function returns only after such a page
\* or after an event below minBlockNumber.
C22_ResultIsEventsAtLeastMinInOrder ==
  /\ NewestFirst(eventsRead) =>
       /\ openSeaSales =
            openSeaEventModelToSubgraphModel(
              variant, collectionSlug,
              SelectSeq(eventsRead, AtLeastMinBlockNumber)).sales
       /\ \A i, j \in 1..Len(openSeaSales) :
            i # j => openSeaSales[i].id # openSeaSales[j].id
       /\ \A i \in 1..Len(openSeaSales) :
            openSeaSales[i].blockNumber >= minBlockNumber
  /\ pagesFetched > 0 => lastCursor = CursorOfRequest(pagesFetched)
  /\ osState \in {"fetching", "reading"} =>
       /\ _next = CursorOfRequest(pagesFetched + 1)
       /\ pagesFetched > 0 => lastHasNext
  /\ (osState = "returned" /\ collectionSlug # ExcludedCollection) =>
       \/ ~lastHasNext
       \/ \E i \in 1..Len(lastEvents) : ~AtLeastMinBlockNumber(lastEvents[i])

\* C22 witness: the second copy has returned after two pages delivered newest
\* first, the second of them with events on both sides of minBlockNumber.
C22_Witness ==
  /\ variant = 2
  /\ osState = "returned"
  /\ pagesFetched = 2
  /\ lastCursor = CursorAfter(1)
  /\ NewestFirst(eventsRead)
  /\ Len(eventsRead) > Len(openSeaSales)
  /\ Len(openSeaSales) > Len(lastPushed)
  /\ Len(lastPushed) > 0

\* C23: when no sale is left after the two filter stages, processSales
\* returns: it does not go on to generateProjectReports and the output of
\* reports, and nothing more happens; with a sale left it goes on to them.
C23_NothingLeftReturnsWithoutReports ==
  /\ FilterStagesDone =>
       /\ processedSales = FilterStages(originalSales, salesFilter)
       /\ (procState = "returned") <=> (Len(processedSales) = 0)
       /\ (procState = "reporting") <=> (Len(processedSales) > 0)
  /\ procState = "returned" => ~ENABLED NextProcess

\* C23 witness: two sales were fetched, one emptied by the first filter and
\* one dropped as a private sale below the threshold, and the run returned.
C23_Witness ==
  /\ procState = "returned"
  /\ Len(originalSales) = 2
  /\ \E i, j \in 1..2 :
       /\ i # j
       /\ Len(originalSales[i].saleLookupTables) > 0
       /\ Len(fetchedSales[i].saleLookupTables) = 0
       /\ Len(fetchedSales[j].saleLookupTables) > 0
       /\ fetchedSales[j].isPrivate
  /\ processedSales = <<>>

\* C24: for the collection slug "cryptocitizensofficial" the function
\* returns the empty list without any request, whatever minBlockNumber is.
C24_ExcludedCollectionIsNotRequested ==
  collectionSlug = ExcludedCollection =>
    /\ osState \in {"called", "returned"}
    /\ openSeaSales = <<>>
    /\ attempts = 0
    /\ pagesFetched = 0
    /\ response = "undefined"
    /\ osState = "called" => ENABLED skipExcludedCollection
    /\ osState = "returned" => ~ENABLED NextOS

\* C24 witness: the function has returned for the skipped collection.
C24_Witness ==
  /\ variant \in {1, 2}
  /\ collectionSlug = ExcludedCollection
  /\ minBlockNumber = MaxOSBlock
  /\ osState = "returned"
  /\ openSeaSales = <<>>

ExchangeTags == {"OSV1", "OSV2", "LOOKSRARE"}

\* The browsed entries of a project paid in `symbol` on `exchange`
EntriesOfExchange(name, symbol, exchange) ==
  {e \in EntriesOf(name, symbol) : reportSales[e[1]].exchange = exchange}

\* C25: for every payment token of every report, at any point of the run,
\* the sub-total of each exchange tag is the sum of the shares of the sales
\* of that exchange, and the total is OSV1 + OSV2 + LOOKSRARE.
C25_TotalIsSumOfExchanges ==
  \A i \in 1..Len(projectReports) :
    \A crypto \in DOMAIN projectReports[i].paymentTokenVolumes :
      LET volume == projectReports[i].paymentTokenVolumes[crypto]
      IN /\ volume.total = volume.OSV1 + volume.OSV2 + volume.LOOKSRARE
         /\ \A exchange \in ExchangeTags :
              volume[exchange] =
                SumOfShares(EntriesOfExchange(projectReports[i].name, crypto, exchange))

\* C25 witness: a report with an OSV1 sale and a LOOKSRARE sale in one
\* payment token.
C25_Witness ==
  \E i \in 1..Len(projectReports) :
    /\ "ETH" \in DOMAIN projectReports[i].paymentTokenVolumes
    /\ projectReports[i].paymentTokenVolumes["ETH"].OSV1 = 100
    /\ projectReports[i].paymentTokenVolumes["ETH"].OSV2 = 0
    /\ projectReports[i].paymentTokenVolumes["ETH"].LOOKSRARE = 20000
    /\ projectReports[i].paymentTokenVolumes["ETH"].total = 20100

\* C26: after computeCryptoDue, for every payment token: with a percentage
\* from 0 to 100 the additional part is between 0 and the royalty due and
\* the artist's part is not negative; without percentage the artist's part
\* is the whole royalty due.
C26_PartsWithinDue ==
  \A i \in Finalized :
    \A crypto \in DOMAIN projectReports[i].paymentTokenVolumes :
      LET due == GlobalDue(projectReports[i].paymentTokenVolumes[crypto], FeeGiven)
          percentage == projectReports[i].additionalPayeePercentage
          parts == projectReports[i].cryptoDue[crypto]
      IN /\ (percentage # NoNumber /\ NumberOf(percentage) \in 0..100) =>
              /\ 0 <= parts.toAdditional
              /\ parts.toAdditional <= due
              /\ parts.toArtist >= 0
         /\ percentage = NoNumber => parts.toArtist = due

\* C26 witness: royalty due 1000 in two finalized reports, one with 100
\* percent (all to the additional payee) and one with 0 percent (all to the
\* artist).
C26_Witness ==
  \E i, j \in Finalized :
    /\ projectReports[i].additionalPayeePercentage = Number(100)
    /\ projectReports[i].cryptoDue["ETH"].toAdditional = 1000
    /\ projectReports[i].cryptoDue["ETH"].toArtist = 0
    /\ projectReports[j].additionalPayeePercentage = Number(0)
    /\ projectReports[j].cryptoDue["ETH"].toAdditional = 0
    /\ projectReports[j].cryptoDue["ETH"].toArtist = 1000

\* The project of a lookup entry
ProjectOf(e) == reportSales[e[1]].saleLookupTables[e[2]].token.project

BrowsedEntriesNamed(name) == {e \in BrowsedEntries : ProjectOf(e).name = name}

\* The first browsed entry of a project name, in the order of the loops
FirstEntryNamed(name) ==
  CHOOSE e \in BrowsedEntriesNamed(name) :
    \A f \in BrowsedEntriesNamed(name) :
      e[1] < f[1] \/ (e[1] = f[1] /\ e[2] <= f[2])

\* C27: the map holds one report per project name among the entries browsed
\* and no other report; the id, artist address and additional-payee fields
\* of a report are those of the first entry of its name, whatever the
\* entries after it hold.
C27_OneReportPerNameWithFirstIdentity ==
  /\ {projectReports[i].name : i \in 1..Len(projectReports)}
       = {ProjectOf(e).name : e \in BrowsedEntries}
  /\ \A i, j \in 1..Len(projectReports) :
       i # j => projectReports[i].name # projectReports[j].name
  /\ \A i \in 1..Len(projectReports) :
       LET project == ProjectOf(FirstEntryNamed(projectReports[i].name))
       IN /\ projectReports[i].projectId = parseInt(project.id)
          /\ projectReports[i].artistAddress = project.artistAddress
          /\ projectReports[i].additionalPayeeAddress = project.additionalPayee
          /\ projectReports[i].additionalPayeePercentage =
               project.additionalPayeePercentage

\* C27 witness: two sales of two projects of one name with different id,
\* artist and payee: one report, with the identity of the first.
C27_Witness ==
  /\ reportState = "returned"
  /\ Len(reportSales) = 2
  /\ reportSales[1].saleLookupTables = <<SaleLookupTable(ProjectA2)>>
  /\ reportSales[2].saleLookupTables = <<SaleLookupTable(ProjectA)>>
  /\ Len(projectReports) = 1
  /\ projectReports[1].totalSales = 2
  /\ projectReports[1].projectId = 10
  /\ projectReports[1].artistAddress = ProjectA2.artistAddress
  /\ projectReports[1].additionalPayeePercentage = NoNumber

\* The sum over the reports 1..n of the volume total in `symbol`
RECURSIVE SumOfTotals(_, _)
SumOfTotals(n, symbol) ==
  IF n = 0 THEN 0
  ELSE (IF symbol \in DOMAIN projectReports[n].paymentTokenVolumes
        THEN projectReports[n].paymentTokenVolumes[symbol].total
        ELSE 0)
       + SumOfTotals(n - 1, symbol)

\* The sum of the prices of the sales 1..n paid in `symbol`
RECURSIVE SumOfPrices(_, _)
SumOfPrices(n, symbol) ==
  IF n = 0 THEN 0
  ELSE (IF /\ ~Unresolvable(reportSales[n])
           /\ addressToPaymentToken(reportSales[n].paymentToken) = symbol
        THEN reportSales[n].price
        ELSE 0)
       + SumOfPrices(n - 1, symbol)

\* C28: when no sale has more surviving lookup entries than tokens, at any
\* point of the run the volume totals of all reports in a payment token sum
\* to at most the prices of the input sales paid in that token.
C28_NoValueCreatedBySplit ==
  (\A k \in 1..Len(reportSales) :
     Len(reportSales[k].saleLookupTables) <= NbTokensSold(reportSales[k])) =>
    \A symbol \in Symbols :
      SumOfTotals(Len(projectReports), symbol) <= SumOfPrices(Len(reportSales), symbol)

\* C28 witness: one sale of price 100 and three tokens whose entries belong
\* to two projects: the two reports hold 99 together.
C28_Witness ==
  /\ reportState = "returned"
  /\ Len(reportSales) = 1
  /\ reportSales[1].price = 100
  /\ Len(reportSales[1].saleLookupTables) = 3
  /\ Len(projectReports) = 2
  /\ SumOfTotals(2, "ETH") = 99
  /\ SumOfPrices(1, "ETH") = 100

\* C29: after computeCryptoDue the keys of cryptoDue are the keys of
\* paymentTokenVolumes, and computeCryptoDue run again with the same fee
\* gives the same report: cryptoDue, paymentTokenVolumes and totalSales as
\* they were.
C29_ComputeCryptoDueOverwrites ==
  \A i \in Finalized :
    /\ DOMAIN projectReports[i].cryptoDue = DOMAIN projectReports[i].paymentTokenVolumes
    /\ computeCryptoDue(projectReports[i], FeeGiven) = projectReports[i]

\* C29 witness: a finalized report with parts that are not 0 in two payment
\* tokens.
C29_Witness ==
  \E i \in Finalized :
    /\ DOMAIN projectReports[i].cryptoDue = {"ETH", "WETH"}
    /\ projectReports[i].cryptoDue["ETH"].toArtist > 0
    /\ projectReports[i].cryptoDue["WETH"].toArtist > 0
    /\ projectReports[i].cryptoDue["ETH"].toAdditional > 0

=============================================================================
